---- MODULE Spec2Model ----
(***************************************************************************)
(* Admin/AI handoff and per-customer forum threads of the Panda AppStore   *)
(* bot (src/bot.py).                                                       *)
(*                                                                         *)
(* The bot is a python-telegram-bot Application built with the default     *)
(* builder (bot.py:3223), so updates are handled one at a time: every      *)
(* handler runs to completion before the next update is taken.  One        *)
(* action of the model is therefore one whole handler run.                 *)
(*                                                                         *)
(* Time is the wall clock (time.time()) in seconds.  The synchronous       *)
(* stretch of a handler reads one clock value; the only place a handler    *)
(* lets time pass is the typing pause of the AI reply (bot.py:432-439).    *)
(* Clock values are kept on a grid of five seconds.                        *)
(***************************************************************************)
EXTENDS Integers, FiniteSets, Sequences, TLC

\* ---------------------------------------------------------------- bounds
MaxTicks == 6
MaxThreads == 2
MaxRestartTicks == 3
MaxTopics == 3
MaxConfigTicks == 4
MaxWordCount == 7
MaxBans == 5

\* ------------------------------------------------------------- constants
Window == 20
NoThread == 0
Epoch == 0
DefaultTimeout == 20
Hour == 3600
SPAM_THRESHOLD == 5
SPAM_WINDOW == 60
MinInterval == 2

\* The words users write, with len(word), and the messages made of them
\* (message.lower().split(), bot.py:255).
WordLen == [w \in {"hi", "app"} |-> IF w = "hi" THEN 2 ELSE 3]
Words == DOMAIN WordLen
TrackedWords == {w \in Words : WordLen[w] > 2}
Messages == {<<"hi">>, <<"app">>, <<"app", "app", "app">>}
\* What the admin types: a user id, or a code.
Texts == {"1", "PANDA"}

Users == {1}
\* Two customers whose first messages arrive together.
Callers == {1, 2}
Admin == "admin"
NoAdmin == "None"

\* time.time() is far from the epoch: the first clock value is later than
\* one window after timestamp 0.
StartTime == Window + 5
MaxTime == StartTime + 5 * MaxTicks
\* More than the hour of bot.py:252 with no update to handle.
LongPause == Hour + 5
\* The model follows the clock up to MaxTime and, after one long pause, up
\* to MaxTime again.
LatestTime(now) == IF now <= MaxTime THEN MaxTime ELSE LongPause + MaxTime
Times == {StartTime + 5 * k : k \in 0..MaxTicks}
ThreadIds == 1..MaxThreads

VARIABLES
    clock,           \* time.time()
    admin_active,    \* data/admin_active.json: user -> record (or absent)
    active_threads,  \* data/active_threads.json: user -> thread id (NoThread: no key)
    live,            \* forum topics that exist in the staff group
    nextThread,      \* message_thread_id the next create_forum_topic returns
    staffLast,       \* history: time of the last staff message routed to the user
    msg,             \* history: the last user message that reached the arbiter
    last,            \* what the handler that ran last did
    conversation_histories, \* data/conversation_histories.json: the users with a key
    threads_file,    \* data/active_threads.json as two callers' resolutions see it
    call_pc,         \* where each of the two resolutions stands
    call_copy,       \* the dict each resolution loaded from the file
    RESPONSE_TIMEOUT, \* Config.RESPONSE_TIMEOUT, from the environment
    admin_action,    \* context.user_data['admin_action'] of the admin ("none": no key)
    redeem_codes,    \* data/redeem_codes.json, in the order of its keys
    banned_users,    \* data/banned_users.json: user -> record (or absent)
    user_ban_history,   \* data/user_ban_history.json
    user_word_tracking, \* data/user_word_tracking.json
    user_spam_tracking, \* data/user_spam_tracking.json
    update,          \* the update handled last: whose it was and what it carried
    delivered        \* history: per code, the sends tried and the sends that arrived

\* What the handlers of the handoff leave alone.
desk == <<admin_action, redeem_codes, banned_users, user_ban_history,
          user_word_tracking, user_spam_tracking, update, delivered>>

ext == <<threads_file, call_pc, call_copy, RESPONSE_TIMEOUT, desk>>

vars == <<clock, admin_active, active_threads, live, nextThread, staffLast, msg,
          last, conversation_histories, ext>>

\* --------------------------------------------------- admin_active.json
NoRec == [present |-> FALSE, admin_id |-> NoAdmin,
          last_activity |-> Epoch, user_last_message |-> Epoch]

\* Variants of the test with the window cut short, and with no expiry.
is_admin_actively_responding_lax(aa, u, now) ==
    aa[u].present /\ now - aa[u].last_activity < Window - 5

is_admin_actively_responding_noexpiry(aa, u, now) ==
    aa[u].present /\ aa[u].last_activity > Epoch

\* Variant whose window includes its end point.
is_admin_actively_responding_inclusive(aa, u, now) ==
    aa[u].present /\ now - aa[u].last_activity <= Window

\* bot.py:107-125, the value returned
is_admin_actively_responding(aa, u, now) ==
    aa[u].present /\ now - aa[u].last_activity < Window

\* Variant of the query that leaves the file as it found it.
after_is_admin_actively_responding_keep(aa, u, now) == aa

\* bot.py:119-123, the file after the call: an expired record is removed
after_is_admin_actively_responding(aa, u, now) ==
    IF aa[u].present /\ ~(now - aa[u].last_activity < Window)
    THEN [aa EXCEPT ![u] = NoRec]
    ELSE aa

\* Variant that keeps the last_activity of a record already stored.
mark_admin_active_stale(aa, u, adm, now) ==
    [aa EXCEPT ![u] =
        [present |-> TRUE, admin_id |-> adm,
         last_activity |-> IF aa[u].present THEN aa[u].last_activity ELSE now,
         user_last_message |->
            IF aa[u].present THEN aa[u].user_last_message ELSE now]]

\* bot.py:127-135
mark_admin_active(aa, u, adm, now) ==
    [aa EXCEPT ![u] =
        [present |-> TRUE, admin_id |-> adm, last_activity |-> now,
         user_last_message |->
            IF aa[u].present THEN aa[u].user_last_message ELSE now]]

\* Variant that stamps a new record's last_activity with the current time.
update_user_last_message_touch(aa, u, now) ==
    IF aa[u].present
    THEN [aa EXCEPT ![u].user_last_message = now]
    ELSE [aa EXCEPT ![u] =
            [present |-> TRUE, admin_id |-> NoAdmin,
             last_activity |-> now, user_last_message |-> now]]

\* bot.py:137-150
update_user_last_message(aa, u, now) ==
    IF aa[u].present
    THEN [aa EXCEPT ![u].user_last_message = now]
    ELSE [aa EXCEPT ![u] =
            [present |-> TRUE, admin_id |-> NoAdmin,
             last_activity |-> Epoch, user_last_message |-> now]]

\* Variant of the take-over test without the wait of one window.
should_ai_respond_after_timeout_nowait(aa, u, now) ==
    /\ aa[u].present
    /\ aa[u].last_activity > 0
    /\ aa[u].user_last_message > aa[u].last_activity

\* bot.py:152-171, the value returned
should_ai_respond_after_timeout(aa, u, now) ==
    /\ aa[u].present
    /\ aa[u].last_activity > 0
    /\ aa[u].user_last_message > aa[u].last_activity
    /\ now - aa[u].user_last_message >= Window

\* bot.py:166-168, the file after the call
after_should_ai_respond_after_timeout(aa, u, now) ==
    IF should_ai_respond_after_timeout(aa, u, now)
    THEN [aa EXCEPT ![u] = NoRec]
    ELSE aa

\* bot.py:2888-2895: the decision of handle_message for a user message that
\* passed moderation.  held: the message is forwarded to the staff thread
\* and the handler returns; otherwise the AI answers.
Arbitrate(aa, u, now) ==
    LET aa1 == update_user_last_message(aa, u, now)
        act == is_admin_actively_responding(aa1, u, now)
        aa2 == after_is_admin_actively_responding(aa1, u, now)
        \* "and" short-circuits: the take-over test runs only when active
        tko == act /\ should_ai_respond_after_timeout(aa2, u, now)
        aa3 == IF act THEN after_should_ai_respond_after_timeout(aa2, u, now)
               ELSE aa2
    IN  [held |-> act /\ ~tko, aa |-> aa3, act |-> act, tko |-> tko]


\* ------------------------------------------------- the staff group (Telegram)
\* send_message(chat_id=GROUP_ID, message_thread_id=t): a topic that does
\* not exist cannot be written to; a topic that exists may be written to,
\* may have been deleted by staff a moment ago, or the call may fail for
\* another reason (network, rate limit).
SendOutcome(lv, t, s) == IF t \in lv THEN s ELSE "missing"
LiveAfterSend(lv, t, s) == IF SendOutcome(lv, t, s) = "missing" THEN lv \ {t} ELSE lv

\* --------------------------------------------------- active_threads.json
\* Variant that never looks at the stored entry.
get_or_create_thread_id_nocache(at, lv, nx, u, probe, create) ==
    LET canMake == create # "fail" /\ nx <= MaxThreads
    IN  [tid     |-> IF canMake /\ create = "ok" THEN nx ELSE NoThread,
         threads |-> IF canMake THEN [at EXCEPT ![u] = nx] ELSE at,
         live    |-> IF canMake THEN lv \cup {nx} ELSE lv,
         next    |-> IF canMake THEN nx + 1 ELSE nx,
         probe   |-> "none",
         create  |-> IF canMake THEN create ELSE "fail",
         intro   |-> IF canMake /\ create = "ok" THEN 1 ELSE 0]

\* Variant that stores the id it asked for even when create_forum_topic raised.
get_or_create_thread_id_cachefail(at, lv, nx, u, probe, create) ==
    LET cached  == at[u]
        hasKey  == cached # NoThread
        pr      == IF hasKey THEN SendOutcome(lv, cached, probe) ELSE "none"
        lv1     == IF hasKey THEN LiveAfterSend(lv, cached, probe) ELSE lv
        canMake == create # "fail" /\ nx <= MaxThreads
    IN  IF hasKey /\ pr = "ok"
        THEN [tid |-> cached, threads |-> at, live |-> lv1, next |-> nx,
              probe |-> pr, create |-> "none", intro |-> 0]
        ELSE [tid         |-> IF canMake /\ create = "ok" THEN nx ELSE NoThread,
              threads     |-> [at EXCEPT ![u] = nx],
              live        |-> IF canMake THEN lv1 \cup {nx} ELSE lv1,
              next        |-> IF canMake THEN nx + 1 ELSE nx,
              probe       |-> pr,
              create      |-> IF canMake THEN create ELSE "fail",
              \* bot.py:3105-3109: the welcome message of a new thread
              intro       |-> IF canMake /\ create = "ok" THEN 1 ELSE 0]

\* Variant that greets nobody: no welcome message goes into a new thread.
get_or_create_thread_id_nointro(at, lv, nx, u, probe, create) ==
    LET cached  == at[u]
        hasKey  == cached # NoThread
        pr      == IF hasKey THEN SendOutcome(lv, cached, probe) ELSE "none"
        lv1     == IF hasKey THEN LiveAfterSend(lv, cached, probe) ELSE lv
        at1     == IF hasKey /\ pr # "ok" THEN [at EXCEPT ![u] = NoThread] ELSE at
        canMake == create # "fail" /\ nx <= MaxThreads
    IN  IF hasKey /\ pr = "ok"
        THEN [tid |-> cached, threads |-> at, live |-> lv1, next |-> nx,
              probe |-> pr, create |-> "none", intro |-> 0]
        ELSE [tid         |-> IF canMake /\ create = "ok" THEN nx ELSE NoThread,
              threads     |-> IF canMake THEN [at1 EXCEPT ![u] = nx] ELSE at1,
              live        |-> IF canMake THEN lv1 \cup {nx} ELSE lv1,
              next        |-> IF canMake THEN nx + 1 ELSE nx,
              probe       |-> pr,
              create      |-> IF canMake THEN create ELSE "fail",
              intro       |-> 0]

\* bot.py:3035-3119.  probe: what happens to the test message of
\* bot.py:3052-3058 ("ok", "delfail": sent but delete_message raised,
\* "missing", "transient"); create: what happens at bot.py:3091-3109 ("ok",
\* "welcomefail": topic created and stored but the welcome message raised,
\* "fail": create_forum_topic raised).
get_or_create_thread_id(at, lv, nx, u, probe, create) ==
    LET cached  == at[u]
        hasKey  == cached # NoThread
        pr      == IF hasKey THEN SendOutcome(lv, cached, probe) ELSE "none"
        lv1     == IF hasKey THEN LiveAfterSend(lv, cached, probe) ELSE lv
        \* bot.py:3061-3065: any exception of the probe drops the entry
        at1     == IF hasKey /\ pr # "ok" THEN [at EXCEPT ![u] = NoThread] ELSE at
        canMake == create # "fail" /\ nx <= MaxThreads
    IN  IF hasKey /\ pr = "ok"
        THEN [tid |-> cached, threads |-> at, live |-> lv1, next |-> nx,
              probe |-> pr, create |-> "none", intro |-> 0]
        ELSE [tid         |-> IF canMake /\ create = "ok" THEN nx ELSE NoThread,
              threads     |-> IF canMake THEN [at1 EXCEPT ![u] = nx] ELSE at1,
              live        |-> IF canMake THEN lv1 \cup {nx} ELSE lv1,
              next        |-> IF canMake THEN nx + 1 ELSE nx,
              probe       |-> pr,
              create      |-> IF canMake THEN create ELSE "fail",
              \* bot.py:3105-3109: the welcome message of a new thread
              intro       |-> IF canMake /\ create = "ok" THEN 1 ELSE 0]

\* bot.py:2995-3033: the mirror of one AI turn into the customer's thread,
\* or into the general chat when no thread id was obtained.  Every
\* exception is caught and logged (bot.py:3032-3033).
forward_conversation_to_admin_thread(at, lv, nx, u, probe, create, send, general) ==
    LET r == get_or_create_thread_id(at, lv, nx, u, probe, create)
    IN  [r       |-> r,
         send    |-> IF r.tid # NoThread THEN SendOutcome(r.live, r.tid, send)
                     ELSE "none",
         general |-> IF r.tid # NoThread THEN "none" ELSE general,
         live    |-> IF r.tid # NoThread THEN LiveAfterSend(r.live, r.tid, send)
                     ELSE r.live]

\* bot.py:173-185: a withheld user message is copied into the thread; with
\* no thread id nothing is sent.
forward_user_message_to_admin_thread(at, lv, nx, u, probe, create, send) ==
    LET r == get_or_create_thread_id(at, lv, nx, u, probe, create)
    IN  [r       |-> r,
         send    |-> IF r.tid # NoThread THEN SendOutcome(r.live, r.tid, send)
                     ELSE "none",
         general |-> "none",
         live    |-> IF r.tid # NoThread THEN LiveAfterSend(r.live, r.tid, send)
                     ELSE r.live]

\* The mirror was not reached: nothing of the directory changes.
NoMirror(at, lv, nx, u) ==
    [r |-> [tid |-> NoThread, threads |-> at, live |-> lv, next |-> nx,
            probe |-> "none", create |-> "none", intro |-> 0],
     send |-> "none", general |-> "none", live |-> lv]

MirrorFailed(m) ==
    \/ m.send \in {"missing", "transient"}
    \/ m.general = "fail"
    \/ m.r.create \in {"fail", "welcomefail"}

\* Variant in which a failed mirror raises into handle_message's except branch.
AiTurn_mirror_raises(at, lv, nx, u, comp, reply, fb, probe, create, send, general) ==
    LET m == forward_conversation_to_admin_thread(at, lv, nx, u, probe, create,
                                                  send, general)
    IN  IF comp = "ok" /\ reply = "ok"
        THEN [reply |-> "ok", mirror |-> m,
              fallback |-> IF MirrorFailed(m) THEN fb ELSE "none"]
        ELSE [reply |-> IF comp = "ok" THEN "fail" ELSE "none",
              fallback |-> fb, mirror |-> NoMirror(at, lv, nx, u)]

\* bot.py:2897-2993: the AI turn of handle_message.  comp: the completion
\* call; reply: reply_text(ai_response); fb: reply_text of the apology in
\* the except branch.
AiTurn(at, lv, nx, u, comp, reply, fb, probe, create, send, general) ==
    IF comp # "ok"
    THEN [reply |-> "none", fallback |-> fb, mirror |-> NoMirror(at, lv, nx, u)]
    ELSE IF reply # "ok"
    THEN \* reply_text raised: control jumps to the except branch, past the mirror
         [reply |-> "fail", fallback |-> fb, mirror |-> NoMirror(at, lv, nx, u)]
    ELSE [reply |-> "ok", fallback |-> "none",
          mirror |-> forward_conversation_to_admin_thread(at, lv, nx, u, probe,
                                                          create, send, general)]


\* ------------------------------------------------------------- handlers
NoEvent ==
    [kind |-> "none", user |-> 0, route |-> "none", reply |-> "none",
     fallback |-> "none", resolved |-> FALSE, cached |-> NoThread,
     probe |-> "none", create |-> "none", tid |-> NoThread, send |-> "none",
     general |-> "none", thread |-> NoThread, fwd |-> "none", conf |-> "none",
     boot |-> FALSE, waited |-> FALSE, intro |-> 0,
     asked |-> FALSE, tko |-> FALSE, hist |-> 0,
     ban_type |-> "none", ban_count |-> 0,
     action |-> "none", sent |-> {}, code |-> "", dlv |-> "none"]

\* What the probe of the cached thread can meet, and what a send can meet.
ProbeChoices == {"ok", "delfail", "missing", "transient"}
CreateChoices == {"ok", "welcomefail", "fail"}
SendChoices == {"ok", "missing", "transient"}
Outcomes == {"ok", "fail"}
\* asyncio.sleep(delay) of bot.py:437, delay between 3 and 15 seconds
\* (bot.py:430); no pause when send_chat_action raised (bot.py:438).
TypingDelays == {0, 5, 15}

\* The outcomes that can differ for a resolution of u's thread: with no
\* entry nothing is probed, a dead thread can only be found missing, and a
\* probe that succeeds creates nothing.
ProbesFor(at, lv, u) ==
    IF at[u] = NoThread THEN {"ok"}
    ELSE IF at[u] \in lv THEN ProbeChoices ELSE {"missing"}
CreatesFor(at, lv, u, probe) ==
    IF at[u] # NoThread /\ SendOutcome(lv, at[u], probe) = "ok" THEN {"ok"}
    ELSE CreateChoices
SendsFor(r) == IF r.tid # NoThread THEN SendChoices ELSE {"ok"}
GeneralsFor(r) == IF r.tid # NoThread THEN {"ok"} ELSE Outcomes

\* handle_message (bot.py:2261-2993) for a text message of a user who is not
\* an admin, is not banned and passes the moderation checks: the arbiter
\* decision and, by it, either the copy into the staff thread or the AI turn.
UserMessageHeld(u) ==
    LET now == clock
        arb == Arbitrate(admin_active, u, now)
    IN  /\ arb.held
        /\ \E probe \in ProbesFor(active_threads, live, u) :
           \E create \in CreatesFor(active_threads, live, u, probe) :
           \E send \in SendsFor(get_or_create_thread_id(
                            active_threads, live, nextThread, u, probe, create)) :
                LET m == forward_user_message_to_admin_thread(
                            active_threads, live, nextThread, u, probe, create, send)
                IN  /\ admin_active' = arb.aa
                    /\ active_threads' = m.r.threads
                    /\ live' = m.live
                    /\ nextThread' = m.r.next
                    /\ clock' = now
                    /\ msg' = [msg EXCEPT ![u] = [at |-> now, staff |-> staffLast[u],
                                                  answered |-> FALSE,
                                                  failed |-> FALSE]]
                    /\ last' = [NoEvent EXCEPT !.kind = "user", !.user = u,
                                    !.route = "held", !.resolved = TRUE,
                                    !.cached = active_threads[u],
                                    !.probe = m.r.probe, !.create = m.r.create,
                                    !.tid = m.r.tid, !.send = m.send,
                                    !.intro = m.r.intro,
                                    !.boot = (last.kind = "restart"),
                                    !.asked = arb.act, !.tko = arb.tko]
                    /\ UNCHANGED <<staffLast, conversation_histories>>

\* bot.py:2902-2973: the user message and the completion are appended to the
\* user's history and the file is saved once the completion has returned,
\* before the reply is sent; a completion that raises saves nothing.
HistoryAppended(comp) == IF comp = "ok" THEN 2 ELSE 0

AiStep(u, d, comp, reply, fb, probe, create, send, general) ==
    LET now == clock
        arb == Arbitrate(admin_active, u, now)
        t == AiTurn(active_threads, live, nextThread, u, comp, reply, fb,
                    probe, create, send, general)
        m == t.mirror
    IN  /\ ~arb.held
        /\ now + d <= LatestTime(now)
        /\ admin_active' = arb.aa
        /\ active_threads' = m.r.threads
        /\ live' = m.live
        /\ nextThread' = m.r.next
        \* the reply leaves after the typing pause
        /\ clock' = now + d
        /\ msg' = [msg EXCEPT ![u] = [at |-> now, staff |-> staffLast[u],
                                      answered |-> t.reply # "none",
                                      failed |-> comp # "ok"]]
        /\ last' = [NoEvent EXCEPT !.kind = "user", !.user = u,
                        !.route = "ai", !.reply = t.reply,
                        !.fallback = t.fallback,
                        !.resolved = (m.r.probe # "none" \/ m.r.create # "none"),
                        !.cached = active_threads[u],
                        !.probe = m.r.probe, !.create = m.r.create,
                        !.tid = m.r.tid, !.send = m.send,
                        !.general = m.general, !.intro = m.r.intro,
                        !.boot = (last.kind = "restart"),
                        !.asked = arb.act, !.tko = arb.tko,
                        !.hist = HistoryAppended(comp)]
        /\ conversation_histories' =
                IF HistoryAppended(comp) > 0
                THEN conversation_histories \cup {u}
                ELSE conversation_histories
        /\ UNCHANGED staffLast

UserMessageAi(u) ==
    \E d \in TypingDelays, fb \in Outcomes :
        \/ AiStep(u, d, "fail", "ok", fb, "ok", "ok", "ok", "ok")
        \/ AiStep(u, d, "ok", "fail", fb, "ok", "ok", "ok", "ok")
        \/ \E probe \in ProbesFor(active_threads, live, u) :
           \E create \in CreatesFor(active_threads, live, u, probe) :
           \E send \in SendsFor(get_or_create_thread_id(
                            active_threads, live, nextThread, u, probe, create)) :
           \E general \in GeneralsFor(get_or_create_thread_id(
                            active_threads, live, nextThread, u, probe, create)) :
                AiStep(u, d, "ok", "ok", fb, probe, create, send, general)

UserMessage(u) == UserMessageHeld(u) \/ UserMessageAi(u)

\* Variant that takes every user with an entry for the owner of the thread.
ThreadOwners_any(at, t) == {u \in Users : at[u] # NoThread}

\* bot.py:3139-3152: the user whose directory entry is the thread
ThreadOwners(at, t) == {u \in Users : at[u] = t}

\* run_polling (bot.py:3236) hands updates to the handlers one after the
\* other: a message staff post in thread t while a handler runs waits until
\* that handler has returned.  The only handler that takes time is the AI
\* turn with its typing pause (bot.py:437), so a staff message handled
\* right after an AI turn of the thread's owner may have been posted during
\* that turn, provided the thread was the owner's before the turn.
WaitChoices(t, u) ==
    IF /\ last.kind = "user" /\ last.user = u /\ last.route = "ai"
       /\ last.cached = t /\ msg[u].at < clock
    THEN BOOLEAN
    ELSE {FALSE}

\* check_admin_reply (bot.py:3121-3207) for an admin message posted in forum
\* thread t, reached from handle_message (bot.py:2822) or as the handler of
\* non-text messages (bot.py:3229).  fwd: the send to the user; conf: the
\* receipt (or the error notice) sent back into the thread.
StaffMessage(t) ==
    /\ t \in live
    /\ LET now == clock
           owners == ThreadOwners(active_threads, t)
       IN  IF owners = {}
           THEN /\ last' = [NoEvent EXCEPT !.kind = "staff", !.thread = t,
                                    !.boot = (last.kind = "restart")]
                /\ UNCHANGED <<clock, admin_active, active_threads, live,
                               nextThread, staffLast, msg,
                               conversation_histories>>
           ELSE \E fwd \in Outcomes, conf \in SendChoices :
                  LET u == CHOOSE x \in owners : TRUE
                  IN  \E w \in WaitChoices(t, u) :
                      /\ admin_active' = mark_admin_active(admin_active, u, Admin, now)
                      /\ live' = LiveAfterSend(live, t, conf)
                      /\ staffLast' = [staffLast EXCEPT ![u] = now]
                      /\ last' = [NoEvent EXCEPT !.kind = "staff", !.user = u,
                                      !.thread = t, !.fwd = fwd,
                                      !.conf = SendOutcome(live, t, conf),
                                      !.boot = (last.kind = "restart"),
                                      !.waited = w,
                                      \* bot.py:3181-3193
                                      !.hist = IF fwd = "ok" THEN 1 ELSE 0,
                                      \* the AI reply that left meanwhile
                                      !.reply = IF w THEN last.reply ELSE "none"]
                      /\ conversation_histories' =
                              IF fwd = "ok"
                              THEN conversation_histories \cup {u}
                              ELSE conversation_histories
                      /\ UNCHANGED <<clock, active_threads, nextThread, msg>>

\* Staff delete a forum topic in the Telegram client.
DeleteThread(t) ==
    /\ t \in live
    /\ live' = live \ {t}
    /\ last' = NoEvent
    /\ UNCHANGED <<clock, admin_active, active_threads, nextThread, staffLast, msg,
                   conversation_histories>>

\* Five seconds pass with no update to handle.
Tick ==
    /\ clock + 5 <= LatestTime(clock)
    /\ clock' = clock + 5
    /\ last' = NoEvent
    /\ UNCHANGED <<admin_active, active_threads, live, nextThread, staffLast, msg,
                   conversation_histories>>

\* Variant of the start-up that writes every data file anew.
initialize_data_reset(file, empty) == empty

\* initialize_data (bot.py:59-79): a data file that exists is left as it is
initialize_data(file, empty) == file

\* The process is stopped and started again (main, bot.py:3213-3236).  All
\* handoff and thread state is read from the data files on every call
\* (bot.py:109, 129, 139, 154, 3038), so nothing of it lives in memory.
Restart ==
    /\ admin_active' = initialize_data(admin_active, [u \in Users |-> NoRec])
    /\ active_threads' = initialize_data(active_threads, [u \in Users |-> NoThread])
    /\ conversation_histories' = initialize_data(conversation_histories, {})
    /\ last' = [NoEvent EXCEPT !.kind = "restart"]
    /\ UNCHANGED <<clock, live, nextThread, staffLast, msg>>

NoMsg == [at |-> Epoch, staff |-> Epoch, answered |-> FALSE, failed |-> FALSE]

\* initialize_data (bot.py:59-79): every data file starts as {}
HandoffInit ==
    /\ clock = StartTime
    /\ admin_active = [u \in Users |-> NoRec]
    /\ active_threads = [u \in Users |-> NoThread]
    /\ live = {}
    /\ nextThread = 1
    /\ staffLast = [u \in Users |-> Epoch]
    /\ msg = [u \in Users |-> NoMsg]
    /\ last = NoEvent
    /\ conversation_histories = {}

\* No resolution is under way and the file is empty.
AwaitInit ==
    /\ threads_file = [c \in Callers |-> NoThread]
    /\ call_pc = [c \in Callers |-> "idle"]
    /\ call_copy = [c \in Callers |-> [d \in Callers |-> NoThread]]

\* No action is pending and the files of the admin panel and of the
\* moderation are empty (initialize_data, bot.py:59-79; the files it does
\* not create are read with the default {}, bot.py:242, 321).
NoBan == [present |-> FALSE, ban_type |-> "none", duration |-> 0, banned_at |-> Epoch]
NoBanHistory == [present |-> FALSE, ban_count |-> 0, permanent_ban_requested |-> FALSE]
NoWords == [present |-> FALSE, word_counts |-> [w \in TrackedWords |-> 0],
            last_reset |-> Epoch]
NoSpam == [present |-> FALSE, messages |-> <<>>, last_message |-> <<>>]
NotSent == [tries |-> 0, got |-> 0]
NoUpdate == [who |-> "none", kind |-> "none", place |-> NoThread, text |-> ""]

DeskInit ==
    /\ admin_action = "none"
    /\ redeem_codes = <<>>
    /\ banned_users = [u \in Users |-> NoBan]
    /\ user_ban_history = [u \in Users |-> NoBanHistory]
    /\ user_word_tracking = [u \in Users |-> NoWords]
    /\ user_spam_tracking = [u \in Users |-> NoSpam]
    /\ update = NoUpdate
    /\ delivered = [c \in Texts |-> NotSent]

\* config.py:26: the environment does not set RESPONSE_TIMEOUT
EnvInit == RESPONSE_TIMEOUT = DefaultTimeout

ExtInit == AwaitInit /\ EnvInit /\ DeskInit

Init == HandoffInit /\ ExtInit

Next ==
    \/ \E u \in Users : UserMessage(u) /\ UNCHANGED ext
    \/ \E t \in ThreadIds : StaffMessage(t) /\ UNCHANGED ext
    \/ \E t \in ThreadIds : DeleteThread(t) /\ UNCHANGED ext
    \/ Tick /\ UNCHANGED ext

Spec == Init /\ [][Next]_vars

\* The same handlers with restarts of the process in between, followed up
\* to MaxRestartTicks clock steps.
RestartMaxTime == StartTime + 5 * MaxRestartTicks

RestartNext ==
    \/ \E u \in Users : UserMessage(u) /\ clock' <= RestartMaxTime /\ UNCHANGED ext
    \/ \E t \in ThreadIds : StaffMessage(t) /\ clock' <= RestartMaxTime /\ UNCHANGED ext
    \/ \E t \in ThreadIds : DeleteThread(t) /\ clock' <= RestartMaxTime /\ UNCHANGED ext
    \/ Tick /\ clock' <= RestartMaxTime /\ UNCHANGED ext
    \/ Restart /\ UNCHANGED ext

SpecRestart == Init /\ [][RestartNext]_vars

\* ------------------------------------------------ the configured window
\* The same handlers in deployments that set RESPONSE_TIMEOUT in the
\* environment (config.py:26; config.py:105 rejects values <= 0), followed
\* up to MaxConfigTicks clock steps.
ConfiguredWindows == {DefaultTimeout - 5, DefaultTimeout, DefaultTimeout + 5}

ConfigInit ==
    HandoffInit /\ AwaitInit /\ DeskInit /\ RESPONSE_TIMEOUT \in ConfiguredWindows

ConfigMaxTime == StartTime + 5 * MaxConfigTicks

ConfigNext ==
    \/ \E u \in Users : UserMessage(u) /\ clock' <= ConfigMaxTime /\ UNCHANGED ext
    \/ \E t \in ThreadIds : StaffMessage(t) /\ clock' <= ConfigMaxTime /\ UNCHANGED ext
    \/ \E t \in ThreadIds : DeleteThread(t) /\ clock' <= ConfigMaxTime /\ UNCHANGED ext
    \/ Tick /\ clock' <= ConfigMaxTime /\ UNCHANGED ext

SpecConfig == ConfigInit /\ [][ConfigNext]_vars

\* ------------------------------------------- resolutions at their awaits
\* get_or_create_thread_id step by step, for two customers.  A resolution
\* runs from one await to the next without interruption: it loads the file
\* (bot.py:3038) and stops at the probe (bot.py:3052) or at get_chat and
\* create_forum_topic (bot.py:3069, 3091); when the probe has failed it
\* writes its dict without its own key (bot.py:3064-3065); when the topic is
\* created it writes its dict with its own key (bot.py:3098-3099) and stops
\* at the welcome message (bot.py:3105).

\* Variant of the dispatcher that takes the next update while a handler is
\* still waiting (concurrent_updates).
CanStart_concurrent(pc) == TRUE

\* Application.builder().token(...).build() (bot.py:3223) with handlers
\* that block (bot.py:3226-3229): the next update is taken when the handler
\* of the one before has returned.
CanStart(pc) == \A c \in Callers : pc[c] = "idle"

ResolveBegin(c) ==
    /\ call_pc[c] = "idle"
    /\ CanStart(call_pc)
    /\ call_copy' = [call_copy EXCEPT ![c] = threads_file]
    /\ call_pc' = [call_pc EXCEPT ![c] =
                        IF threads_file[c] # NoThread THEN "probing" ELSE "creating"]
    /\ UNCHANGED <<threads_file, nextThread>>

ResolveProbed(c) ==
    /\ call_pc[c] = "probing"
    /\ \/ \* bot.py:3060: the stored id is returned
          /\ call_pc' = [call_pc EXCEPT ![c] = "idle"]
          /\ UNCHANGED <<threads_file, call_copy>>
       \/ \* bot.py:3061-3065: the key is deleted and the dict written
          LET mine == [call_copy[c] EXCEPT ![c] = NoThread]
          IN  /\ call_copy' = [call_copy EXCEPT ![c] = mine]
              /\ threads_file' = mine
              /\ call_pc' = [call_pc EXCEPT ![c] = "creating"]
    /\ UNCHANGED nextThread

ResolveCreated(c) ==
    /\ call_pc[c] = "creating"
    /\ \/ \* bot.py:3113-3115: create_forum_topic raised
          /\ call_pc' = [call_pc EXCEPT ![c] = "idle"]
          /\ UNCHANGED <<threads_file, call_copy, nextThread>>
       \/ \* bot.py:3096-3099
          /\ nextThread <= MaxTopics
          /\ LET mine == [call_copy[c] EXCEPT ![c] = nextThread]
             IN  /\ call_copy' = [call_copy EXCEPT ![c] = mine]
                 /\ threads_file' = mine
          /\ nextThread' = nextThread + 1
          /\ call_pc' = [call_pc EXCEPT ![c] = "welcoming"]

\* bot.py:3105-3115: the welcome message is sent or raises; the call returns
ResolveWelcomed(c) ==
    /\ call_pc[c] = "welcoming"
    /\ call_pc' = [call_pc EXCEPT ![c] = "idle"]
    /\ UNCHANGED <<threads_file, call_copy, nextThread>>

\* What a resolution followed at its awaits leaves alone.
handoff == <<clock, admin_active, active_threads, live, staffLast, msg, last,
             conversation_histories, RESPONSE_TIMEOUT, desk>>

AwaitNext ==
    \/ \E c \in Callers : ResolveBegin(c) /\ UNCHANGED handoff
    \/ \E c \in Callers : ResolveProbed(c) /\ UNCHANGED handoff
    \/ \E c \in Callers : ResolveCreated(c) /\ UNCHANGED handoff
    \/ \E c \in Callers : ResolveWelcomed(c) /\ UNCHANGED handoff

SpecAwait == Init /\ [][AwaitNext]_vars

\* ------------------------------------------------------------ moderation
Occurrences(m, w) == Cardinality({i \in 1..Len(m) : m[i] = w})

MaxOf(S) == IF S = {} THEN 0 ELSE CHOOSE x \in S : \A y \in S : y <= x

\* Variant of the hourly reset that clears the counts on every call.
WordsAfterReset_always(wt, u, now) ==
    [present |-> TRUE, word_counts |-> [w \in TrackedWords |-> 0],
     last_reset |-> now]

\* bot.py:246-253: the user's entry, created when missing, with the counts
\* cleared when the last reset is more than an hour old
WordsAfterReset(wt, u, now) ==
    LET d0 == IF wt[u].present THEN wt[u]
              ELSE [present |-> TRUE, word_counts |-> [w \in TrackedWords |-> 0],
                    last_reset |-> now]
    IN  IF now - d0.last_reset > Hour
        THEN [d0 EXCEPT !.word_counts = [w \in TrackedWords |-> 0],
                        !.last_reset = now]
        ELSE d0

\* check_word_repetition (bot.py:240-278): the words longer than two
\* characters are counted, the file is saved, and the largest count decides
check_word_repetition(wt, u, m, now) ==
    LET d1 == WordsAfterReset(wt, u, now)
        counts == [w \in TrackedWords |-> d1.word_counts[w] + Occurrences(m, w)]
        max_count == MaxOf({counts[w] : w \in TrackedWords})
    IN  [tracking |-> [wt EXCEPT ![u] = [d1 EXCEPT !.word_counts = counts]],
         max_count |-> max_count,
         needs_warning |-> max_count >= 3,
         needs_ban |-> max_count >= 5]

WordSet(m) == {m[i] : i \in 1..Len(m)}

\* calculate_message_similarity (bot.py:221-238) > SIMILARITY_THRESHOLD (0.8)
Similar(m1, m2) ==
    /\ m1 # <<>> /\ m2 # <<>>
    /\ 5 * Cardinality(WordSet(m1) \cap WordSet(m2))
            > 4 * Cardinality(WordSet(m1) \cup WordSet(m2))

\* bot.py:292-295: the times inside the spam window
RecentOf(times, now) ==
    LET Pick[k \in 0..Len(times)] ==
            IF k = 0 THEN <<>>
            ELSE IF now - times[k] < SPAM_WINDOW
                 THEN Append(Pick[k - 1], times[k]) ELSE Pick[k - 1]
    IN  Pick[Len(times)]

\* is_spam_message (bot.py:280-317); the file is saved only when the message
\* is not spam
is_spam_message(st, u, m, now) ==
    LET d0 == IF st[u].present THEN st[u] ELSE [NoSpam EXCEPT !.present = TRUE]
        recent == RecentOf(d0.messages, now)
        spam == \/ Len(recent) >= SPAM_THRESHOLD
                \/ Similar(m, d0.last_message) /\ Len(recent) >= 2
                \/ recent # <<>> /\ now - recent[Len(recent)] < MinInterval
    IN  [spam |-> spam,
         tracking |-> IF spam THEN st
                      ELSE [st EXCEPT ![u] =
                              [present |-> TRUE,
                               messages |-> Append(recent, now),
                               last_message |-> m]]]

\* Variant of the penalty table without the third step.
calculate_ban_duration_short(bh, u) ==
    IF bh[u].ban_count = 0
    THEN [duration |-> 1800, ban_type |-> "temporary"]
    ELSE IF bh[u].ban_count = 1
    THEN [duration |-> 3600, ban_type |-> "temporary"]
    ELSE [duration |-> 0, ban_type |-> "permanent_pending"]

\* calculate_ban_duration (bot.py:334-366)
calculate_ban_duration(bh, u) ==
    IF bh[u].ban_count = 0
    THEN [duration |-> 1800, ban_type |-> "temporary"]
    ELSE IF bh[u].ban_count = 1
    THEN [duration |-> 3600, ban_type |-> "temporary"]
    ELSE IF bh[u].ban_count = 2
    THEN [duration |-> 86400, ban_type |-> "temporary"]
    ELSE [duration |-> 0, ban_type |-> "permanent_pending"]

\* ban_user_progressive (bot.py:368-408): the files after the call
ban_user_progressive(bu, bh, u, now) ==
    LET info == calculate_ban_duration(bh, u)
        count == bh[u].ban_count + 1
    IN  [history |-> [bh EXCEPT ![u] =
                        [present |-> TRUE, ban_count |-> count,
                         permanent_ban_requested |->
                            \/ bh[u].permanent_ban_requested
                            \/ info.ban_type = "permanent_pending"]],
         banned |-> [bu EXCEPT ![u] =
                        [present |-> TRUE, ban_type |-> info.ban_type,
                         duration |-> info.duration, banned_at |-> now]],
         ban_type |-> info.ban_type,
         ban_count |-> count]

\* Variant of the ban check that lets a temporary ban run out.
IsBanned_expiring(bu, u, now) ==
    /\ bu[u].present
    /\ bu[u].ban_type = "temporary" => now - bu[u].banned_at < bu[u].duration

\* bot.py:2271-2281: the user has an entry in banned_users.json, of whatever
\* type and age
IsBanned(bu, u, now) == bu[u].present

\* What the handlers of the admin panel leave alone in a user's message.
panel == <<admin_action, redeem_codes, delivered>>

\* handle_message (bot.py:2261-2993) for a text message of user u, who is
\* not an admin: the ban check (bot.py:2270-2281), the word and spam checks
\* (bot.py:2828-2886) and, for a message that passes them, the arbiter and
\* what follows it (bot.py:2888-2993).
UserText(u, m) ==
    LET now == clock
        wc == check_word_repetition(user_word_tracking, u, m, now)
        sp == is_spam_message(user_spam_tracking, u, m, now)
        ban == ban_user_progressive(banned_users, user_ban_history, u, now)
    IN  /\ update' = [NoUpdate EXCEPT !.who = "user", !.kind = "text"]
        /\ UNCHANGED panel
        /\ IF IsBanned(banned_users, u, now)
           THEN /\ last' = [NoEvent EXCEPT !.kind = "blocked", !.user = u,
                                           !.route = "banned"]
                /\ UNCHANGED <<clock, admin_active, active_threads, live,
                               nextThread, staffLast, msg, conversation_histories,
                               banned_users, user_ban_history,
                               user_word_tracking, user_spam_tracking>>
           ELSE /\ wc.max_count <= MaxWordCount
                /\ user_word_tracking' = wc.tracking
                /\ IF wc.needs_warning /\ ~wc.needs_ban
                   THEN /\ last' = [NoEvent EXCEPT !.kind = "blocked", !.user = u,
                                                   !.route = "warned"]
                        /\ UNCHANGED <<clock, admin_active, active_threads, live,
                                       nextThread, staffLast, msg,
                                       conversation_histories, banned_users,
                                       user_ban_history, user_spam_tracking>>
                   ELSE IF wc.needs_ban \/ sp.spam
                   THEN /\ ban.ban_count <= MaxBans
                        /\ banned_users' = ban.banned
                        /\ user_ban_history' = ban.history
                        \* the spam check runs only when the words do not ban
                        /\ user_spam_tracking' =
                                IF wc.needs_ban THEN user_spam_tracking
                                ELSE sp.tracking
                        /\ last' = [NoEvent EXCEPT !.kind = "blocked", !.user = u,
                                        !.route = "autoban",
                                        !.ban_type = ban.ban_type,
                                        !.ban_count = ban.ban_count]
                        /\ UNCHANGED <<clock, admin_active, active_threads, live,
                                       nextThread, staffLast, msg,
                                       conversation_histories>>
                   ELSE /\ user_spam_tracking' = sp.tracking
                        /\ UserMessage(u)
                        /\ UNCHANGED <<banned_users, user_ban_history>>

\* ----------------------------------------------------------- admin panel
\* The values callback_query_handler stores in admin_action
\* (bot.py:932-2062); handle_message has a branch for each (bot.py:2287-2819).
AdminActions ==
    {"adding_code", "send_code", "delete_code", "broadcast_all",
     "broadcast_premium", "change_usd", "change_stars", "configure_oxapay",
     "set_paid_post_url", "configure_stars_channel", "search_user",
     "ban_user", "unban_user"}

\* int(message_text.strip()): the number a text of digits stands for;
\* 0 stands for the ValueError any other text raises.
ParseInt(text) == IF text = "1" THEN 1 ELSE 0

HasCode(rc, code) == \E i \in 1..Len(rc) : rc[i].code = code

\* bot.py:2288-2302: a code not yet in the file is stored as active
adding_code(rc, code) ==
    IF HasCode(rc, code) THEN rc
    ELSE Append(rc, [code |-> code, status |-> "active", used_by |-> 0])

\* bot.py:2316-2336
delete_code(rc, code) ==
    LET Keep(e) == e.code # code
    IN  SelectSeq(rc, Keep)

\* Variant of the search that takes the first code whatever its status.
FirstActive_any(rc) == IF rc = <<>> THEN 0 ELSE 1

\* bot.py:2682-2688: the first code with status 'active' (0: there is none)
FirstActive(rc) ==
    LET A == {i \in 1..Len(rc) : rc[i].status = "active"}
    IN  IF A = {} THEN 0 ELSE CHOOSE i \in A : \A j \in A : i <= j

\* bot.py:2690-2694
MarkUsed(rc, i, target) ==
    [rc EXCEPT ![i].status = "used", ![i].used_by = target]

\* bot.py:2733-2741: the users a broadcast goes to
BroadcastTargets(action, rc, ch) ==
    IF action = "broadcast_premium"
    THEN {rc[i].used_by : i \in 1..Len(rc)} \ {0}
    ELSE ch

\* What the branch of handle_message for a pending admin_action does with
\* the admin's text (bot.py:2287-2819), up to its final reply: the files
\* after it, the users the text itself was sent to, and the code that was
\* handed to send_message with what became of it.  The settings and the user search write or read files that
\* are not part of this model.
AdminBranch(action, text, rc, bu, ch, dl, dlv, now) ==
    LET target == ParseInt(text)
        i == FirstActive(rc)
        same == [codes |-> rc, banned |-> bu, counts |-> dl, sent |-> {},
                 code |-> "", dlv |-> "none"]
    IN  IF action = "adding_code"
        THEN [same EXCEPT !.codes = adding_code(rc, text),
                          \* a new entry has not been sent yet
                          !.counts = IF HasCode(rc, text) THEN dl
                                     ELSE [dl EXCEPT ![text] = NotSent]]
        ELSE IF action = "delete_code"
        THEN [same EXCEPT !.codes = delete_code(rc, text)]
        ELSE IF action = "ban_user" /\ target # 0
        THEN [same EXCEPT !.banned =
                [bu EXCEPT ![target] =
                    [present |-> TRUE, ban_type |-> "permanent",
                     duration |-> 0, banned_at |-> now]]]
        ELSE IF action = "unban_user" /\ target # 0
        THEN [same EXCEPT !.banned = [bu EXCEPT ![target] = NoBan]]
        ELSE IF action = "send_code" /\ target # 0 /\ i # 0
        THEN [same EXCEPT !.codes = MarkUsed(rc, i, target),
                          !.code = rc[i].code,
                          !.dlv = dlv,
                          !.counts =
                            [dl EXCEPT ![rc[i].code] =
                                [tries |-> @.tries + 1,
                                 got |-> IF dlv = "ok" THEN @.got + 1
                                         ELSE @.got]]]
        ELSE IF action \in {"broadcast_all", "broadcast_premium"}
        THEN [same EXCEPT !.sent = IF dlv = "ok"
                                   THEN BroadcastTargets(action, rc, ch)
                                   ELSE {}]
        ELSE same

\* Variant of the branch's end that leaves the action pending.
AfterReply_keep(action, reply) == action

\* context.user_data.pop('admin_action', None) at the end of every branch
\* (bot.py:2312, 2354, ..., 2818), reached when the reply before it did not
\* raise
AfterReply(action, reply) == IF reply = "ok" THEN "none" ELSE action

\* What an update of the admin panel leaves alone.
core == <<clock, admin_active, active_threads, live, nextThread, staffLast, msg,
          conversation_histories>>
tracking == <<user_ban_history, user_word_tracking, user_spam_tracking>>

\* A button of the admin panel that asks for input (bot.py:925-2062): the
\* prompt is shown and then admin_action is set.
AdminCallback(a) ==
    \E edit \in Outcomes :
        /\ admin_action' = IF edit = "ok" THEN a ELSE admin_action
        /\ update' = [NoUpdate EXCEPT !.who = "admin", !.kind = "callback"]
        /\ last' = [NoEvent EXCEPT !.kind = "panel", !.action = a]
        /\ UNCHANGED <<core, tracking, redeem_codes, banned_users, delivered>>

\* handle_message (bot.py:2261-2826) for a text message of the admin, typed
\* in the private chat (NoThread) or in forum thread t.  reply: the reply
\* that ends the branch of a pending action; dlv: the sends to users.
AdminText(t, text, reply, dlv) ==
    /\ t = NoThread \/ t \in live
    /\ update' = [NoUpdate EXCEPT !.who = "admin", !.kind = "text",
                                  !.place = t, !.text = text]
    /\ IF admin_action # "none"
       THEN LET b == AdminBranch(admin_action, text, redeem_codes, banned_users,
                                 conversation_histories, delivered, dlv, clock)
            IN  /\ redeem_codes' = b.codes
                /\ banned_users' = b.banned
                /\ delivered' = b.counts
                /\ admin_action' = AfterReply(admin_action, reply)
                /\ last' = [NoEvent EXCEPT !.kind = "admin", !.thread = t,
                                !.action = admin_action, !.sent = b.sent,
                                !.code = b.code, !.dlv = b.dlv,
                                !.reply = reply]
                /\ UNCHANGED <<core, tracking>>
       ELSE /\ IF t # NoThread
               THEN StaffMessage(t)
               ELSE /\ last' = [NoEvent EXCEPT !.kind = "admin"]
                    /\ UNCHANGED core
            /\ UNCHANGED <<admin_action, redeem_codes, banned_users, delivered,
                           tracking>>

\* A message of the admin that is not plain text (a photo, a document, a
\* command), posted in forum thread t: check_admin_reply is its handler
\* (bot.py:3229).
AdminOther(t) ==
    /\ StaffMessage(t)
    /\ update' = [NoUpdate EXCEPT !.who = "admin", !.kind = "other",
                                  !.place = t]
    /\ UNCHANGED <<admin_action, redeem_codes, banned_users, delivered, tracking>>

\* admin_confirm_delete_all (bot.py:1029-1040): the file of codes is emptied
DeleteAllCodes ==
    /\ redeem_codes' = <<>>
    /\ update' = [NoUpdate EXCEPT !.who = "admin", !.kind = "callback"]
    /\ last' = [NoEvent EXCEPT !.kind = "panel", !.action = "delete_all"]
    /\ UNCHANGED <<core, tracking, admin_action, banned_users, delivered>>

\* The buttons under a permanent ban request (bot.py:2853-2863), which is
\* posted with a user's fourth and later automatic bans.
\* admin_approve_ban_ (bot.py:2064-2095)
ApproveBan(u) ==
    /\ user_ban_history[u].ban_count >= 4
    /\ banned_users' = [banned_users EXCEPT ![u] =
                            [present |-> TRUE, ban_type |-> "permanent",
                             duration |-> 0, banned_at |-> clock]]
    /\ update' = [NoUpdate EXCEPT !.who = "admin", !.kind = "callback"]
    /\ last' = [NoEvent EXCEPT !.kind = "panel", !.action = "approve_ban",
                               !.user = u]
    /\ UNCHANGED <<core, tracking, admin_action, redeem_codes, delivered>>

\* admin_deny_ban_ (bot.py:2097-2120)
DenyBan(u) ==
    /\ user_ban_history[u].ban_count >= 4
    /\ banned_users' = [banned_users EXCEPT ![u] = NoBan]
    /\ user_ban_history' =
            [user_ban_history EXCEPT ![u].permanent_ban_requested = FALSE]
    /\ update' = [NoUpdate EXCEPT !.who = "admin", !.kind = "callback"]
    /\ last' = [NoEvent EXCEPT !.kind = "panel", !.action = "deny_ban",
                               !.user = u]
    /\ UNCHANGED <<core, user_word_tracking, user_spam_tracking, admin_action,
                   redeem_codes, delivered>>

\* ------------------------------------------------- the desk: every update
\* The updates of users and of the admin, handled one after the other.

\* More than an hour passes with no update to handle.
Pause ==
    /\ clock <= MaxTime
    /\ clock' = clock + LongPause
    /\ last' = NoEvent
    /\ update' = NoUpdate
    /\ UNCHANGED <<admin_active, active_threads, live, nextThread, staffLast, msg,
                   conversation_histories, tracking, admin_action, redeem_codes,
                   banned_users, delivered>>

rest == <<threads_file, call_pc, call_copy, RESPONSE_TIMEOUT>>

\* Telegram answers every call of the thread plumbing and every delivery.
Reliable ==
    /\ last'.probe \in {"none", "ok"} /\ last'.create \in {"none", "ok"}
    /\ last'.send \in {"none", "ok"} /\ last'.general \in {"none", "ok"}
    /\ last'.fwd \in {"none", "ok"} /\ last'.conf \in {"none", "ok"}
    /\ last'.reply \in {"none", "ok"} /\ last'.fallback = "none"

\* The admin panel next to the staff threads: every admin_action, typed
\* input in the private chat and in the threads, and users whose messages
\* the moderation lets pass, all within one clock step.
AdminNext ==
    \/ \E u \in Users : UserText(u, <<"hi">>) /\ Reliable /\ clock' = clock
                            /\ last'.kind = "user" /\ UNCHANGED rest
    \/ \E a \in AdminActions : AdminCallback(a) /\ UNCHANGED rest
    \/ \E t \in ThreadIds \cup {NoThread}, reply, dlv \in Outcomes :
            AdminText(t, "1", reply, dlv) /\ last'.conf \in {"none", "ok"}
                /\ UNCHANGED rest
    \/ \E t \in ThreadIds : AdminOther(t) /\ Reliable /\ UNCHANGED rest

SpecAdmin == Init /\ [][AdminNext]_vars

\* Moderation: users who write and the admin who bans, unbans, approves and
\* denies, now and more than an hour later.
ModerationNext ==
    \/ \E u \in Users, m \in Messages : UserText(u, m) /\ Reliable /\ clock' = clock
                                            /\ UNCHANGED rest
    \/ \E a \in {"ban_user", "unban_user"} : AdminCallback(a) /\ UNCHANGED rest
    \/ AdminText(NoThread, "1", "ok", "ok") /\ UNCHANGED rest
    \/ \E u \in Users : ApproveBan(u) /\ UNCHANGED rest
    \/ \E u \in Users : DenyBan(u) /\ UNCHANGED rest
    \/ Pause /\ UNCHANGED rest

SpecModeration == Init /\ [][ModerationNext]_vars

\* The redeem codes: the admin adds, deletes and sends codes and empties
\* the file.
CodesNext ==
    \/ \E a \in {"adding_code", "delete_code", "send_code"} :
            AdminCallback(a) /\ UNCHANGED rest
    \/ \E text \in Texts, reply, dlv \in Outcomes :
            AdminText(NoThread, text, reply, dlv) /\ UNCHANGED rest
    \/ DeleteAllCodes /\ UNCHANGED rest

SpecCodes == Init /\ [][CodesNext]_vars

TypeOK ==
    /\ clock \in Times
    /\ live \subseteq ThreadIds
    /\ nextThread \in 1..(MaxThreads + 1)


\* ---------------------------------------------------------------- claims
AiReplied(u) == last.kind = "user" /\ last.user = u /\ last.reply # "none"

\* C1: an AI reply to a user is never produced less than one window (20 s)
\* after the latest staff message routed to that user.
NoPrematureAiReply ==
    \A u \in Users :
        (AiReplied(u) /\ staffLast[u] # Epoch) => clock - staffLast[u] >= Window

\* An AI reply was produced for a user staff had written to before.
AiReplyAfterStaffWindow ==
    \E u \in Users : AiReplied(u) /\ staffLast[u] # Epoch /\ msg[u].staff # Epoch

\* C2: staff at T0, user message at T0 + 5, no staff message since: once the
\* clock has passed T0 + 20 the user message has been answered by the AI.
ScenarioB_DeferredReply ==
    \A u \in Users :
        (/\ staffLast[u] # Epoch
         /\ msg[u].staff = staffLast[u]
         /\ msg[u].at = staffLast[u] + 5
         /\ clock > staffLast[u] + Window) => msg[u].answered

\* C3: a user message arriving when staff never wrote to the user, or wrote
\* at least one window ago, takes the AI route in its own handler (a reply is
\* sent to the user there) and leaves no staff-window record behind.
ImmediateAnswer ==
    \A u \in Users :
        (/\ last.kind = "user" /\ last.user = u
         /\ (msg[u].staff = Epoch \/ msg[u].at - msg[u].staff >= Window))
        => /\ last.route = "ai"
           /\ (last.reply # "none" \/ last.fallback # "none")
           /\ ~admin_active[u].present

\* A message was answered at once although staff had written to the user,
\* a window or more before.
ImmediateAnswerAfterExpiry ==
    \E u \in Users :
        /\ last.kind = "user" /\ last.user = u /\ last.reply = "ok"
        /\ msg[u].staff # Epoch /\ msg[u].at - msg[u].staff >= Window

ScenarioC(u) ==
    /\ msg[u].staff # Epoch
    /\ msg[u].at = msg[u].staff + 5
    /\ staffLast[u] = msg[u].staff + 10

\* C4: staff at T0, user message at T0 + 5, staff again at T0 + 10: the staff
\* window is open from T0 + 10 and the user message stays unanswered by the AI.
ScenarioC_StaysWithStaff ==
    \A u \in Users :
        ScenarioC(u) =>
            /\ ~msg[u].answered
            /\ admin_active[u].present
            /\ admin_active[u].last_activity = staffLast[u]

\* Scenario C has played out and the window opened at T0 + 10 has run out.
ScenarioC_Reached ==
    \E u \in Users : ScenarioC(u) /\ clock >= staffLast[u] + Window

\* C6: a resolution that finds an entry for the user whose thread answers
\* the probe creates nothing and returns the stored thread id.
IdempotentCreate ==
    \A u \in Users :
        (/\ last.kind = "user" /\ last.user = u /\ last.resolved
         /\ last.cached # NoThread
         /\ last.probe \notin {"missing", "transient", "delfail"})
        => /\ last.create = "none"
           /\ last.tid = last.cached
           /\ active_threads[u] = last.cached

\* A second resolution for a user returned the thread the first one made.
SecondResolveUsesCache ==
    \E u \in Users :
        /\ last.kind = "user" /\ last.user = u /\ last.resolved
        /\ last.cached # NoThread /\ last.probe = "ok" /\ last.tid = last.cached

\* C7: after an event in which a send into the user's thread failed because
\* the thread is missing, the entry has been invalidated and re-resolved: it
\* no longer names the thread the send failed on.
InvalidateAndRetry ==
    \A u \in Users :
        (last.kind = "user" /\ last.user = u /\ last.send = "missing")
        => active_threads[u] # last.tid

MirrorFailedLast ==
    \/ last.send \in {"missing", "transient"}
    \/ last.general = "fail"
    \/ last.create \in {"fail", "welcomefail"}

\* C8: in an AI turn whose mirror into the staff group failed (resolution,
\* creation or send), the AI reply had been delivered to the user and no
\* apology follows it.
MirrorFailureKeepsReply ==
    (last.kind = "user" /\ last.route = "ai" /\ MirrorFailedLast)
    => (last.reply = "ok" /\ last.fallback = "none")

\* Creating the thread failed and the AI reply reached the user.
ReplyDespiteCreateFailure ==
    /\ last.kind = "user" /\ last.route = "ai"
    /\ last.create = "fail" /\ last.general = "fail" /\ last.reply = "ok"

\* C9: in an AI turn whose reply to the user failed to send, the mirror into
\* the staff group is attempted all the same.
ReplyFailureKeepsMirror ==
    (last.kind = "user" /\ last.route = "ai" /\ last.reply = "fail")
    => (last.resolved \/ last.send # "none" \/ last.general # "none")

\* C10: after a staff message in a thread that belongs to a user, the user's
\* last_activity is the time of that message and the staff window is open,
\* whatever became of the forward to the user.
StaffOpensWindow ==
    \A u \in Users :
        (last.kind = "staff" /\ last.user = u)
        => /\ admin_active[u].present
           /\ admin_active[u].last_activity = clock
           /\ admin_active[u].admin_id = Admin
           /\ clock - admin_active[u].last_activity < Window

\* A staff message re-opened the window although its forward to the user failed.
StaffWindowDespiteFailedForward ==
    \E u \in Users :
        /\ last.kind = "staff" /\ last.user = u /\ last.fwd = "fail"
        /\ msg[u].staff # Epoch /\ clock > msg[u].staff

\* C11: a resolution in which create_forum_topic failed returns no thread id
\* and leaves no entry for the user; and a resolution that finds no entry
\* probes nothing and attempts a creation.
FailedCreateNotCached ==
    \A u \in Users :
        (last.kind = "user" /\ last.user = u /\ last.resolved) =>
            /\ last.create = "fail" =>
                    (last.tid = NoThread /\ active_threads[u] = NoThread)
            /\ last.cached = NoThread =>
                    (last.probe = "none" /\ last.create # "none")

\* The stored thread was found gone and creating its replacement failed.
FailedCreateAfterInvalidation ==
    \E u \in Users :
        /\ last.kind = "user" /\ last.user = u /\ last.resolved
        /\ last.cached # NoThread /\ last.create = "fail"
        /\ nextThread <= MaxThreads

\* C12: an event in which a send into the user's thread failed for a
\* transient reason (network, rate limit) leaves the user's entry as it was
\* and creates no thread, whether the send was the probe, the copy or mirror
\* of a message, or the receipt sent to staff.
TransientKeepsMapping ==
    \A u \in Users :
        /\ (last.kind = "user" /\ last.user = u /\ last.probe = "transient")
            => (active_threads[u] = last.cached /\ last.create = "none")
        /\ (last.kind = "user" /\ last.user = u /\ last.send = "transient")
            => active_threads[u] = last.tid
        /\ (last.kind = "staff" /\ last.user = u /\ last.conf = "transient")
            => active_threads[u] = last.thread

\* C13: a turn whose completion call failed leaves no staff-window record
\* behind, and the user's next message, when no staff message was routed to
\* the user in between, takes the AI route again.
CompletionFailureStaysAiImmediate ==
    [][\A u \in Users :
        /\ (last'.kind = "user" /\ last'.user = u /\ msg'[u].failed)
            => ~admin_active'[u].present
        /\ (/\ msg[u].failed /\ staffLast[u] = msg[u].staff
            /\ last'.kind = "user" /\ last'.user = u)
            => last'.route = "ai"]_vars

\* The completion call failed in a turn that came after a staff window.
CompletionFailedAfterStaffWindow ==
    \E u \in Users :
        /\ last.kind = "user" /\ last.user = u /\ last.route = "ai"
        /\ msg[u].failed /\ msg[u].staff # Epoch
        /\ ~admin_active[u].present

\* C14: is_admin_actively_responding is true for a user exactly when a staff
\* message was routed to the user and less than one window has passed since
\* the latest one, both on the stored records and on the records as
\* handle_message tests them, right after update_user_last_message.
WithinStaffWindowExact ==
    \A u \in Users :
        LET engaged == staffLast[u] # Epoch /\ clock - staffLast[u] < Window
            aa1 == update_user_last_message(admin_active, u, clock)
        IN  /\ is_admin_actively_responding(admin_active, u, clock) <=> engaged
            /\ is_admin_actively_responding(aa1, u, clock) <=> engaged

\* Exactly one window after the staff message, with its record still stored.
StaffWindowJustElapsed ==
    \E u \in Users :
        /\ admin_active[u].present
        /\ admin_active[u].last_activity = staffLast[u]
        /\ staffLast[u] # Epoch
        /\ clock - staffLast[u] = Window

\* C15: when staff post a message for a user after the arbiter has decided
\* that the AI answers the user's message and before the AI reply is sent,
\* the user does not get both the AI reply and the staff message.
NoDoubleReply ==
    \A u \in Users :
        ~(/\ last.kind = "staff" /\ last.user = u /\ last.waited
          /\ last.reply = "ok" /\ last.fwd = "ok")

\* C16: resolutions for the same user, handled one after the other as the
\* dispatcher hands them over, create one thread between them: no
\* resolution creates a thread for a user whose stored thread still exists.
OneThreadPerUser ==
    \A u \in Users :
        ~(/\ last.kind = "user" /\ last.user = u /\ last.resolved
          /\ last.cached # NoThread /\ last.cached \in live
          /\ last.create \in {"ok", "welcomefail"})

\* C17: a creation that succeeded has stored the user's thread id in
\* active_threads.json when it returns; a restart leaves the file as it is;
\* and the first resolution after a restart, when the stored thread answers
\* the probe, returns the stored id and creates nothing.
ThreadSurvivesRestart ==
    [][/\ last'.kind = "restart" => active_threads' = active_threads
       /\ \A u \in Users :
            /\ (/\ last'.kind = "user" /\ last'.user = u
                /\ last'.create \in {"ok", "welcomefail"})
                => /\ active_threads'[u] = nextThread
                   /\ last'.create = "ok" => last'.tid = nextThread
            /\ (/\ last.kind = "restart"
                /\ last'.kind = "user" /\ last'.user = u /\ last'.resolved
                /\ active_threads[u] # NoThread /\ last'.probe = "ok")
                => /\ last'.tid = active_threads[u]
                   /\ last'.create = "none"
                   /\ nextThread' = nextThread]_vars

\* The first handler after a restart resolved a user's thread from the file.
ResolvedFromFileAfterRestart ==
    \E u \in Users :
        /\ last.kind = "user" /\ last.user = u /\ last.boot /\ last.resolved
        /\ last.cached # NoThread /\ last.probe = "ok"
        /\ last.tid = last.cached /\ active_threads[u] = last.cached

\* C18: handling a user message never moves a user's last_activity forward;
\* last_activity moves forward only in the handler of a staff message routed
\* to that user, which sets it to the time of that message.
StaffTimestampFrame ==
    [][\A u \in Users :
        /\ last'.kind = "user"
            => admin_active'[u].last_activity <= admin_active[u].last_activity
        /\ admin_active'[u].last_activity > admin_active[u].last_activity
            => /\ last'.kind = "staff" /\ last'.user = u
               /\ admin_active'[u].last_activity = clock']_vars

\* A user message was handled inside the staff window, after the staff
\* message, and the record still carries the time of the staff message.
UserMessageKeepsStaffTimestamp ==
    \E u \in Users :
        /\ last.kind = "user" /\ last.user = u /\ last.route = "held"
        /\ msg[u].at > staffLast[u]
        /\ admin_active[u].last_activity = staffLast[u]
        /\ admin_active[u].user_last_message = msg[u].at

\* C19 as stated: the queries change nothing and no record is ever deleted,
\* so once staff have written to a user the user's record stays stored with
\* the time of the latest staff message.
RecordsNeverDeleted ==
    \A u \in Users :
        staffLast[u] # Epoch =>
            /\ admin_active[u].present
            /\ admin_active[u].last_activity = staffLast[u]

\* C19: inside the staff window the queries change nothing (the handler of
\* a withheld message changes user_last_message only); a record is deleted
\* only by the query of a user-message handler that finds it expired, and
\* every handler that takes the AI route leaves the user without a record.
QueriesDeleteOnlyExpired ==
    [][\A u \in Users :
        /\ (admin_active[u].present /\ ~admin_active'[u].present)
            => /\ last'.kind = "user" /\ last'.user = u /\ last'.route = "ai"
               /\ clock - admin_active[u].last_activity >= Window
        /\ (last'.kind = "user" /\ last'.user = u /\ last'.route = "held")
            => /\ admin_active[u].present
               /\ admin_active'[u] =
                    [admin_active[u] EXCEPT !.user_last_message = clock]
        /\ (last'.kind = "user" /\ last'.user = u /\ last'.route = "ai")
            => admin_active'[u] = NoRec]_vars

\* The record staff had stamped was deleted by the query of an AI turn.
ExpiredRecordDeleted ==
    \E u \in Users :
        /\ last.kind = "user" /\ last.user = u /\ last.route = "ai"
        /\ msg[u].staff # Epoch /\ staffLast[u] = msg[u].staff
        /\ ~admin_active[u].present

\* C20: after an event in which a send into the user's stored thread failed
\* because the thread is missing, the user's entry no longer names that
\* thread, whichever send it was: the probe, the copy or mirror of a
\* message, or the receipt sent to staff.
NoDanglingThread ==
    \A u \in Users :
        /\ (last.kind = "user" /\ last.user = u /\ last.probe = "missing")
            => active_threads[u] # last.cached
        /\ (last.kind = "user" /\ last.user = u /\ last.send = "missing")
            => active_threads[u] # last.tid
        /\ (last.kind = "staff" /\ last.user = u /\ last.conf = "missing")
            => active_threads[u] # last.thread

\* C21: a staff message posted in thread T is forwarded to user U and marks
\* staff active for U exactly when the directory maps U to T; when no user
\* maps to T nothing is forwarded and no record changes.
StaffRoutesToOwner ==
    [][last'.kind = "staff" =>
        /\ \A u \in Users :
            /\ (last'.user = u) <=> (active_threads[u] = last'.thread)
            /\ last'.user = u =>
                /\ last'.fwd # "none"
                /\ admin_active'[u].present
                /\ admin_active'[u].last_activity = clock
            /\ last'.user # u =>
                /\ admin_active'[u] = admin_active[u]
                /\ staffLast'[u] = staffLast[u]
        /\ last'.user \notin Users => last'.fwd = "none"]_vars

\* Staff wrote in a thread that exists but is no longer the entry of the
\* user it was created for, who has another thread by now.
StaffInOrphanedThread ==
    /\ last.kind = "staff" /\ last.user \notin Users
    /\ last.thread \in live
    /\ \E u \in Users :
        active_threads[u] # NoThread /\ active_threads[u] # last.thread

\* C22: a resolution that finds no entry for the user and whose calls to
\* Telegram succeed creates one thread, stores its id for the user, puts one
\* introductory message into it and returns the new id; a resolution that
\* finds an entry whose thread answers creates nothing, puts no
\* introductory message anywhere and returns the stored id.
ResolveOrCreate ==
    [][\A u \in Users :
        (last'.kind = "user" /\ last'.user = u /\ last'.resolved) =>
            /\ (active_threads[u] = NoThread /\ last'.create = "ok") =>
                /\ last'.tid = nextThread
                /\ nextThread' = nextThread + 1
                /\ active_threads'[u] = last'.tid
                /\ last'.tid \notin live
                /\ last'.probe = "none"
                /\ last'.intro = 1
            /\ (active_threads[u] # NoThread /\ last'.probe = "ok") =>
                /\ last'.tid = active_threads[u]
                /\ nextThread' = nextThread
                /\ active_threads'[u] = active_threads[u]
                /\ last'.intro = 0]_vars

\* A withheld message of a user without an entry got its thread created.
CreatedForWithheldMessage ==
    \E u \in Users :
        /\ last.kind = "user" /\ last.user = u /\ last.route = "held"
        /\ last.cached = NoThread /\ last.create = "ok"
        /\ last.tid = active_threads[u] /\ last.send = "ok"

WithheldWithinConfiguredWindow ==
    \A u \in Users :
        last.kind = "user" /\ last.user = u =>
            (last.route = "held" <=>
                /\ msg[u].staff # Epoch
                /\ msg[u].at - msg[u].staff < RESPONSE_TIMEOUT)


\* C25: the take-over test of handle_message is false whenever it is
\* evaluated, so a user message handled less than one window after the last
\* staff message takes the forwarding branch (the staff thread is resolved
\* and the message is sent into the thread that results), gets no reply from
\* the automated agent and adds nothing to the conversation history.
TakeOverNeverFires ==
    \A u \in Users :
        last.kind = "user" /\ last.user = u =>
            /\ ~last.tko
            /\ (msg[u].staff # Epoch /\ msg[u].at - msg[u].staff < Window) =>
                /\ last.asked
                /\ last.route = "held"
                /\ last.resolved
                /\ last.tid # NoThread => last.send # "none"
                /\ last.reply = "none" /\ last.fallback = "none"
                /\ last.hist = 0

\* A message handled inside the staff window: the take-over test was
\* evaluated and the message reached the staff thread.
ForwardedInsideStaffWindow ==
    \E u \in Users :
        /\ last.kind = "user" /\ last.user = u
        /\ last.asked /\ ~last.tko
        /\ msg[u].at > msg[u].staff /\ msg[u].at - msg[u].staff < Window
        /\ msg[u].staff # Epoch
        /\ last.send = "ok"


\* C26: a pending admin_action takes precedence over thread routing: the
\* admin's next text message is consumed by the action, which is cleared,
\* and even when typed inside a user's thread it records no staff activity
\* and sends nothing of it to any user; an admin text message reaches
\* check_admin_reply only when no action was pending.
PendingActionConsumesText ==
    [][(update'.who = "admin" /\ update'.kind = "text") =>
        /\ admin_action # "none" =>
            /\ last'.kind = "admin" /\ last'.action = admin_action
            /\ admin_action' = "none"
            /\ UNCHANGED <<admin_active, staffLast>>
            /\ last'.fwd = "none"
            /\ last'.sent = {}
        /\ last'.kind = "staff" => admin_action = "none"]_vars

\* C26, amended: the text is consumed by the pending action and never
\* routed as a staff reply (no staff activity, nothing forwarded to the
\* thread's user, no history entry); the action is cleared when the reply
\* that ends its branch was sent and stays pending when that reply raised;
\* only the broadcast actions send the text on, to their own list of users.
PendingActionBypassesRouting ==
    [][(update'.who = "admin" /\ update'.kind = "text") =>
        /\ admin_action # "none" =>
            /\ last'.kind = "admin" /\ last'.action = admin_action
            /\ last'.reply = "ok" => admin_action' = "none"
            /\ last'.reply # "ok" => admin_action' = admin_action
            /\ UNCHANGED <<admin_active, staffLast, conversation_histories,
                           active_threads>>
            /\ last'.fwd = "none"
            /\ last'.sent # {} =>
                /\ admin_action \in {"broadcast_all", "broadcast_premium"}
                /\ last'.sent = BroadcastTargets(admin_action, redeem_codes,
                                                 conversation_histories)
        /\ last'.kind = "staff" => admin_action = "none"]_vars

\* A text typed inside a user's thread was consumed by the pending action.
TextInThreadConsumed ==
    /\ update.who = "admin" /\ update.kind = "text"
    /\ last.kind = "admin" /\ last.action # "none" /\ last.reply = "ok"
    /\ last.thread # NoThread
    /\ ThreadOwners(active_threads, last.thread) # {}
    /\ admin_action = "none"


ProgressiveBanEscalation ==
    [][\A u \in Users :
        LET k == user_ban_history[u].ban_count + 1
            auto == /\ update'.who = "user" /\ last'.user = u
                    /\ last'.kind = "blocked" /\ last'.route = "autoban"
        IN  /\ auto =>
                /\ user_ban_history'[u].ban_count = k
                /\ last'.ban_count = k
                /\ banned_users'[u].present
                /\ banned_users'[u].ban_type = last'.ban_type
                /\ k = 1 => /\ banned_users'[u].ban_type = "temporary"
                            /\ banned_users'[u].duration = 30 * 60
                /\ k = 2 => /\ banned_users'[u].ban_type = "temporary"
                            /\ banned_users'[u].duration = 60 * 60
                /\ k = 3 => /\ banned_users'[u].ban_type = "temporary"
                            /\ banned_users'[u].duration = 24 * 60 * 60
                /\ k >= 4 => /\ banned_users'[u].ban_type = "permanent_pending"
                             /\ user_ban_history'[u].permanent_ban_requested
            /\ ~auto =>
                user_ban_history'[u].ban_count = user_ban_history[u].ban_count]_vars

\* The fifth automatic ban, after the admin denied the fourth.
FifthBanAfterDenial ==
    \E u \in Users :
        /\ last.kind = "blocked" /\ last.route = "autoban" /\ last.user = u
        /\ last.ban_count = 5
        /\ banned_users[u].ban_type = "permanent_pending"


\* C29: a user's word counts do not shrink while no hourly reset is due,
\* and a message of a user who is not banned, handled when the largest
\* count is already 3 or more and no reset is due, is stopped by the word
\* check whatever it says: it gets a warning when the largest count is then
\* 3 or 4 and a ban when it is 5 or more, and the arbiter, the AI turn and
\* the copy to staff are not reached.
WordRepetitionLockOut ==
    [][\A u \in Users :
        LET wt == user_word_tracking[u]
            before == MaxOf({wt.word_counts[w] : w \in TrackedWords})
            after == MaxOf({user_word_tracking'[u].word_counts[w] :
                                w \in TrackedWords})
            due == wt.present /\ clock - wt.last_reset > Hour
        IN  /\ ~due => \A w \in TrackedWords :
                    user_word_tracking'[u].word_counts[w] >= wt.word_counts[w]
            /\ (/\ update'.who = "user" /\ ~banned_users[u].present
                /\ before >= 3 /\ ~due) =>
                    /\ last'.kind = "blocked" /\ last'.user = u
                    /\ after \in {3, 4} => last'.route = "warned"
                    /\ after >= 5 => /\ last'.route = "autoban"
                                     /\ banned_users'[u].present
                    /\ UNCHANGED <<admin_active, staffLast, msg, active_threads,
                                   conversation_histories, user_spam_tracking>>]_vars

\* Banned for a word repeated five times and unbanned, the user writes
\* again within the hour and is banned again.
BannedAgainAfterUnban ==
    \E u \in Users :
        /\ last.kind = "blocked" /\ last.route = "autoban" /\ last.user = u
        /\ last.ban_count >= 2
        /\ MaxOf({user_word_tracking[u].word_counts[w] : w \in TrackedWords}) > 5
        /\ clock - user_word_tracking[u].last_reset <= Hour


\* C30: send_code hands out only a code that is stored as active and stores
\* it as used, whether or not the delivery arrives; with no active code it
\* marks and sends nothing; so no stored code is handed out twice, and one
\* whose delivery failed is not handed out again.
CodeDispensedOnce ==
    [][/\ \A c \in Texts : delivered'[c].tries <= 1
       /\ (update'.who = "admin" /\ update'.kind = "text"
                /\ admin_action = "send_code") =>
            LET active == {i \in 1..Len(redeem_codes) :
                                redeem_codes[i].status = "active"}
            IN  IF last'.code # ""
                THEN \E i \in active :
                        /\ redeem_codes[i].code = last'.code
                        /\ redeem_codes' = [redeem_codes EXCEPT
                                ![i].status = "used",
                                ![i].used_by = ParseInt(update'.text)]
                        /\ delivered[last'.code].tries = 0
                        /\ delivered'[last'.code].tries = 1
                ELSE /\ ParseInt(update'.text) = 0 \/ active = {}
                     /\ UNCHANGED <<redeem_codes, delivered>>
                     /\ last'.dlv = "none"
       /\ \A i \in 1..Len(redeem_codes) :
            \* a used code does not become active again
            (/\ redeem_codes[i].status = "used"
             /\ i <= Len(redeem_codes')
             /\ redeem_codes'[i].code = redeem_codes[i].code)
                => redeem_codes'[i].status = "used"]_vars

\* A code whose delivery failed is stored as used, and the next send_code
\* for a user found no active code and sent nothing.
FailedDeliveryStaysUsed ==
    \E i \in 1..Len(redeem_codes) :
        /\ redeem_codes[i].status = "used"
        /\ delivered[redeem_codes[i].code] = [tries |-> 1, got |-> 0]
        /\ last.kind = "admin" /\ last.action = "send_code"
        /\ update.text = "1" /\ last.code = ""

====
